---- MODULE Spec2Model ----
(***************************************************************************)
(* State-machine model of the annotation canvas of doc-image-annotator:    *)
(* the App component (src/src/App.jsx, second component, lines 59-355) and *)
(* the KonvaCanvas component with exportCanvasToPNG                         *)
(* (src/src/components/KonvaCanvas.jsx).                                    *)
(*                                                                          *)
(* Every handler is one action.  A handler reads the list of the render    *)
(* that created it (rendered); in Spec React has rendered again before the *)
(* next event, so that is the list the previous handler left.  Konva       *)
(* delivers the pointer events; the model lets it deliver them in any      *)
(* order.                                                                   *)
(*                                                                          *)
(* JavaScript values: null is the record NULL; strings are sequences of    *)
(* characters (so .length is Len); the result of Math.sqrt(n) is kept      *)
(* exactly as the record [sqrt |-> n]; a field that is undefined in        *)
(* JavaScript is a field that is not in the DOMAIN of the record.          *)
(***************************************************************************)
EXTENDS Integers, Sequences, FiniteSets, TLC

\* ---------------------------------------------------------------- bounds
MaxAnns  == 2      \* longest Annotation List explored
MaxClock == 1      \* Date.now() ranges over 0..MaxClock
MaxStr   == 12     \* longest label or text measured
NImages  == 1      \* image files the user can load

\* ------------------------------------------------------ program constants
MinSize     == 10  \* minimum-size threshold of handleStageMouseUp
PixelRatio  == 2   \* pixelRatio passed to stage.toDataURL
DefaultDims == [width |-> 800, height |-> 600]   \* useState initial value

\* ---------------------------------------------------------- input domains
NULL  == [type |-> "null"]
STAGE == 0                       \* event target: the stage background

Tools == {"select", "marker", "text", "rect", "circle"}

Pt(px, py) == [x |-> px, y |-> py]
\* pointer positions delivered by stage.getPointerPosition(): where the
\* pointer goes down on the empty stage, where it moves to while it is down,
\* and where a dragged shape is dropped.  From (11,12) the moves give extents
\* of 11 by 11 (above the threshold) up-left and down-right, of 10 by 0
\* (distance exactly 10) and of 11 by 10.
DownPositions == {Pt(11, 12)}
MovePositions == {Pt(0, 1), Pt(22, 23), Pt(21, 12), Pt(22, 2)}
DropPositions == {Pt(5, 3)}

\* answers of window.prompt: cancelled (null) or a string
Cancelled  == [ok |-> FALSE]
Answer(s)  == [ok |-> TRUE, value |-> s]
Responses  == {Cancelled, Answer(<<>>), Answer(<<"O", "K">>)}

\* intrinsic size of the decoded image of file i, and window/container sizes
ImgSize(i)     == IF i = 1 THEN [width |-> 800, height |-> 600]
                           ELSE [width |-> 640, height |-> 480]
ContainerSizes == {[width |-> 400, height |-> 300], [width |-> 1024, height |-> 768]}

\* ------------------------------------------------------------------ state
VARIABLES
  image,        \* App: image            (NULL or [src |-> file])
  tool,         \* App: tool
  annotations,  \* App: annotations      (the Annotation List)
  selectedId,   \* KonvaCanvas: selectedId
  isDrawing,    \* KonvaCanvas: isDrawing
  tempShape,    \* KonvaCanvas: tempShape
  dimensions,   \* KonvaCanvas: dimensions (stage size)
  win,          \* offsetWidth/offsetHeight the container has in the window
  now,          \* the value Date.now() returned last (never decreases)
  out,          \* the artifact the last handler handed to the download link
  lastOp,       \* history: the handler that ran last, for the handlers the
                \* properties below are about ("other" for the rest)
  gesture,      \* history: the pointer-down and the last pointer-move of the
                \* draw in progress
  awaiting,     \* position of handleStageMouseDown: NULL, or the pointer
                \* position of the call that is blocked in window.prompt
  rendered,     \* the `annotations` value of the last render of App: the
                \* value the handlers created by that render closed over
  readers       \* the FileReaders whose readAsDataURL has not completed, by
                \* the file each one reads

vars == <<image, tool, annotations, selectedId, isDrawing, tempShape,
          dimensions, win, now, out, lastOp, gesture, awaiting, rendered,
          readers>>

appVars    == <<image, tool, annotations>>
canvasVars == <<selectedId, isDrawing, tempShape, dimensions>>

\* ---------------------------------------------------------------- helpers
Abs(n)    == IF n < 0 THEN -n ELSE n
Min(a, b) == IF a < b THEN a ELSE b
Sqrt(n)   == [sqrt |-> n]                  \* Math.sqrt(n), kept exact
SqrtGt(r, k) == r.sqrt > k * k             \* Math.sqrt(n) > k, for k >= 0

Has(r, f)  == f \in DOMAIN r               \* r.f !== undefined
\* variant: only a cancelled request is falsy, the empty string is not
FalsyOnlyNull(r) == ~r.ok
\* variant: the label of a cancelled request is the text of null
OrEmptyKeepsCancel(r) == IF r.ok THEN r.value ELSE <<"n", "u", "l", "l">>

Falsy(r)   == IF r.ok THEN r.value = <<>> ELSE TRUE   \* null and '' are falsy
OrEmpty(r) == IF Falsy(r) THEN <<>> ELSE r.value     \* prompt(..) || ''

Mounted == image # NULL          \* App renders KonvaCanvas only with an image

Op(name) == [name |-> name]

\* no handler is blocked in window.prompt: the event loop delivers events
Idle == awaiting = NULL

\* ------------------------------------------------------------------- Init
\* App and KonvaCanvas right after construction: the upload screen is shown
\* and the canvas is not mounted.
Init ==
  /\ image = NULL
  /\ tool = "marker"
  /\ annotations = <<>>
  /\ selectedId = NULL
  /\ isDrawing = FALSE
  /\ tempShape = NULL
  /\ dimensions = DefaultDims
  /\ win \in ContainerSizes
  /\ now = 0
  /\ out = NULL
  /\ lastOp = Op("init")
  /\ gesture = NULL
  /\ awaiting = NULL
  /\ rendered = annotations
  /\ readers = {}

\* --------------------------------------------------- KonvaCanvas: creation
\* annotations.filter(a => a.type === 'marker').length + 1
IsMarker(a) == a.type = "marker"
\* variant: the number counts the annotations of every type
nextMarkerNumberByLength(anns) == Len(anns) + 1
nextMarkerNumber(anns) == Len(SelectSeq(anns, IsMarker)) + 1

\* `marker-${Date.now()}` and the other three id templates
MakeId(type, t) == [type |-> "id", prefix |-> type, t |-> t]

newMarker(anns, p, r, t) ==
  [id |-> MakeId("marker", t), type |-> "marker", x |-> p.x, y |-> p.y,
   number |-> nextMarkerNumber(anns), label |-> OrEmpty(r), style |-> "primary"]

newText(p, r, t) ==
  [id |-> MakeId("text", t), type |-> "text", x |-> p.x, y |-> p.y,
   text |-> r.value]

\* setTempShape({ type: tool, startX, startY }) of handleStageMouseDown
startShape(t, p) == [type |-> t, startX |-> p.x, startY |-> p.y]

\* variant: the pointer-down handler leaves the selection alone
selectionKeptOnStageDown(target, sel) == sel

\* variant: a pointer-down on the stage clears the selection in select mode
\* only
selectionClearedInSelectMode(target, sel) ==
  IF target = STAGE /\ tool = "select" THEN NULL ELSE sel

\* setSelectedId(null) is reached only when the target is the stage
selectionAfterStageDown(target, sel) == IF target # STAGE THEN sel ELSE NULL

\* variant: the preview rect is anchored at the start point, not at the
\* smaller of the two coordinates
rectPreviewFromStart(ts, p) ==
  [x |-> ts.startX, y |-> ts.startY,
   width |-> Abs(p.x - ts.startX), height |-> Abs(p.y - ts.startY)]
   @@ ts
\* variant: the radius is the horizontal distance only
circlePreviewHorizontal(ts, p) ==
  [radius |-> Sqrt((p.x - ts.startX) * (p.x - ts.startX))] @@ ts

\* the shape handleStageMouseMove stores for pointer position p
rectPreview(ts, p) ==
  [x |-> Min(p.x, ts.startX), y |-> Min(p.y, ts.startY),
   width |-> Abs(p.x - ts.startX), height |-> Abs(p.y - ts.startY)]
   @@ ts
circlePreview(ts, p) ==
  [radius |-> Sqrt((p.x - ts.startX) * (p.x - ts.startX)
                 + (p.y - ts.startY) * (p.y - ts.startY))] @@ ts

\* variant: the rect test accepts an extent equal to the threshold
rectCommitsAtThreshold(ts) ==
  /\ ts.type = "rect"
  /\ Has(ts, "width") /\ ts.width >= MinSize
  /\ Has(ts, "height") /\ ts.height >= MinSize

\* variant: a rect is committed whatever its extent
rectCommitsAnySize(ts) ==
  /\ ts.type = "rect"
  /\ Has(ts, "width")
  /\ Has(ts, "height")

\* the two commit tests of handleStageMouseUp; undefined > 10 is false
rectCommits(ts) ==
  /\ ts.type = "rect"
  /\ Has(ts, "width") /\ ts.width > MinSize
  /\ Has(ts, "height") /\ ts.height > MinSize
circleCommits(ts) ==
  /\ ts.type = "circle"
  /\ Has(ts, "radius") /\ SqrtGt(ts.radius, MinSize)

newRect(ts, t) ==
  [id |-> MakeId("rect", t), type |-> "rect", x |-> ts.x, y |-> ts.y,
   width |-> ts.width, height |-> ts.height, style |-> "warning"]
\* variant: a circle is created with a style tag that is not in the palette
newCircleUnstyled(ts, t) ==
  [id |-> MakeId("circle", t), type |-> "circle", x |-> ts.startX,
   y |-> ts.startY, radius |-> ts.radius, style |-> "danger"]

\* ANNOTATION_STYLES: the style tags of the palette
StyleTags == {"primary", "warning", "info"}

newCircle(ts, t) ==
  [id |-> MakeId("circle", t), type |-> "circle", x |-> ts.startX,
   y |-> ts.startY, radius |-> ts.radius, style |-> "warning"]

\* variant: the props of the drag-end are spread first, so the stored fields win
handleAnnotationChangeKeepsStored(anns, id, newProps) ==
  [i \in 1..Len(anns) |->
     IF anns[i].id = id THEN anns[i] @@ newProps ELSE anns[i]]

\* variant: the changed annotation is taken out of the list and put back on
\* top of the others
handleAnnotationChangeToFront(anns, id, newProps) ==
  LET keep(a) == a.id # id
      hit(a)  == a.id = id
      moved   == SelectSeq(anns, hit)
  IN  SelectSeq(anns, keep) \o [i \in 1..Len(moved) |-> newProps @@ moved[i]]

\* annotations.map(ann => ann.id === id ? { ...ann, ...newProps } : ann)
handleAnnotationChange(anns, id, newProps) ==
  [i \in 1..Len(anns) |->
     IF anns[i].id = id THEN newProps @@ anns[i] ELSE anns[i]]

\* ---------------------------------------------------------- history marks
\* recorded at the pointer-down that starts a draw: the tool, the position,
\* and (from then on) the position of the latest pointer-move
StartGesture(p) ==
  [type |-> "gesture", tool |-> tool, start |-> p, moved |-> FALSE, last |-> p]

\* --------------------------------------------------- KonvaCanvas: handlers
Targets == {STAGE} \cup (1..Len(annotations))

\* variant: no test of the event target, a pointer-down on a shape is handled
\* like one on the stage
handleStageMouseDownAnywhere(target, p, r, t) ==
  /\ Mounted
  /\ target \in Targets
  /\ selectedId' = NULL
  /\ IF tool = "marker"
       THEN /\ Len(rendered) < MaxAnns
            /\ annotations' = Append(rendered, newMarker(rendered, p, r, t))
            /\ now' = t
            /\ UNCHANGED <<isDrawing, tempShape, gesture>>
     ELSE IF tool = "text"
       THEN /\ IF Falsy(r) THEN TRUE ELSE Len(rendered) < MaxAnns
            /\ annotations' = IF Falsy(r) THEN annotations
                              ELSE Append(rendered, newText(p, r, t))
            /\ now' = IF Falsy(r) THEN now ELSE t
            /\ UNCHANGED <<isDrawing, tempShape, gesture>>
     ELSE IF tool \in {"rect", "circle"}
       THEN /\ isDrawing' = TRUE
            /\ tempShape' = startShape(tool, p)
            /\ UNCHANGED <<annotations, now>>
            /\ gesture' = StartGesture(p)
     ELSE UNCHANGED <<annotations, isDrawing, tempShape, gesture, now>>
  /\ lastOp' = IF target = STAGE
                THEN [name |-> "handleStageMouseDown", hadSelection |-> selectedId # NULL]
                ELSE Op("other")
  /\ out' = NULL
  /\ awaiting' = NULL
  /\ UNCHANGED <<image, tool, dimensions, win>>
  /\ UNCHANGED readers

handleStageMouseDown(target, p, r, t) ==
  /\ Mounted
  /\ target \in Targets
  /\ selectedId' = selectionAfterStageDown(target, selectedId)
  /\ IF target # STAGE
       THEN UNCHANGED <<annotations, isDrawing, tempShape, gesture, now>>
     ELSE IF tool = "marker"
       THEN /\ Len(rendered) < MaxAnns
            /\ annotations' = Append(rendered, newMarker(rendered, p, r, t))
            /\ now' = t
            /\ UNCHANGED <<isDrawing, tempShape, gesture>>
     ELSE IF tool = "text"
       THEN /\ IF Falsy(r) THEN TRUE ELSE Len(rendered) < MaxAnns
            /\ annotations' = IF Falsy(r) THEN annotations
                              ELSE Append(rendered, newText(p, r, t))
            /\ now' = IF Falsy(r) THEN now ELSE t
            /\ UNCHANGED <<isDrawing, tempShape, gesture>>
     ELSE IF tool \in {"rect", "circle"}
       THEN /\ isDrawing' = TRUE
            /\ tempShape' = startShape(tool, p)
            /\ UNCHANGED <<annotations, now>>
            /\ gesture' = StartGesture(p)
     ELSE UNCHANGED <<annotations, isDrawing, tempShape, gesture, now>>
  /\ lastOp' = IF target = STAGE
                THEN [name |-> "handleStageMouseDown", hadSelection |-> selectedId # NULL]
                ELSE Op("other")
  /\ out' = NULL
  /\ awaiting' = NULL
  /\ UNCHANGED <<image, tool, dimensions, win>>
  /\ UNCHANGED readers

\* window.prompt is called in marker and text mode
Prompts == tool \in {"marker", "text"}

\* handleStageMouseDown on the stage has reached window.prompt: the dialog is
\* open and the handler has not returned, so no state update is applied yet
promptOpens(p) ==
  /\ Mounted /\ Idle
  /\ Prompts
  /\ tool = "marker" => Len(rendered) < MaxAnns
  /\ awaiting' = [type |-> "prompt", at |-> p]
  /\ lastOp' = Op("other")
  /\ out' = NULL
  /\ UNCHANGED <<appVars, canvasVars, win, now, gesture>>
  /\ UNCHANGED readers

\* the dialog is answered and the handler runs to its end
promptReturns(r, t) ==
  /\ ~Idle
  /\ handleStageMouseDown(STAGE, awaiting.at, r, t)

handleStageMouseMove(p) ==
  /\ Mounted /\ Idle
  /\ IF ~isDrawing THEN UNCHANGED tempShape
     ELSE IF tempShape.type = "rect" THEN tempShape' = rectPreview(tempShape, p)
     ELSE IF tempShape.type = "circle" THEN tempShape' = circlePreview(tempShape, p)
     ELSE UNCHANGED tempShape
  /\ gesture' = IF isDrawing THEN [gesture EXCEPT !.moved = TRUE, !.last = p]
                ELSE gesture
  /\ lastOp' = Op("other")
  /\ out' = NULL
  /\ UNCHANGED awaiting
  /\ UNCHANGED <<appVars, selectedId, isDrawing, dimensions, win, now>>
  /\ UNCHANGED readers

\* variant: the draw is ended only when its shape is committed
handleStageMouseUpKeepsDiscarded(t) ==
  /\ Mounted /\ Idle
  /\ IF ~isDrawing THEN UNCHANGED <<annotations, isDrawing, tempShape, now>>
     ELSE /\ IF rectCommits(tempShape)
               THEN /\ Len(rendered) < MaxAnns
                    /\ annotations' = Append(rendered, newRect(tempShape, t))
                    /\ now' = t
             ELSE IF circleCommits(tempShape)
               THEN /\ Len(rendered) < MaxAnns
                    /\ annotations' = Append(rendered, newCircle(tempShape, t))
                    /\ now' = t
             ELSE UNCHANGED <<annotations, now>>
          /\ isDrawing' = (~rectCommits(tempShape) /\ ~circleCommits(tempShape))
          /\ tempShape' = IF rectCommits(tempShape) \/ circleCommits(tempShape)
                            THEN NULL ELSE tempShape
  /\ gesture' = NULL
  /\ lastOp' = IF isDrawing
                THEN [name |-> "handleStageMouseUp", draw |-> gesture,
                      before |-> annotations]
                ELSE Op("other")
  /\ out' = NULL
  /\ UNCHANGED awaiting
  /\ UNCHANGED <<image, tool, selectedId, dimensions, win>>
  /\ UNCHANGED readers

handleStageMouseUp(t) ==
  /\ Mounted /\ Idle
  /\ IF ~isDrawing THEN UNCHANGED <<annotations, isDrawing, tempShape, now>>
     ELSE /\ IF rectCommits(tempShape)
               THEN /\ Len(rendered) < MaxAnns
                    /\ annotations' = Append(rendered, newRect(tempShape, t))
                    /\ now' = t
             ELSE IF circleCommits(tempShape)
               THEN /\ Len(rendered) < MaxAnns
                    /\ annotations' = Append(rendered, newCircle(tempShape, t))
                    /\ now' = t
             ELSE UNCHANGED <<annotations, now>>
          /\ isDrawing' = FALSE
          /\ tempShape' = NULL
  /\ gesture' = NULL
  /\ lastOp' = IF isDrawing
                THEN [name |-> "handleStageMouseUp", draw |-> gesture,
                      before |-> annotations]
                ELSE Op("other")
  /\ out' = NULL
  /\ UNCHANGED awaiting
  /\ UNCHANGED <<image, tool, selectedId, dimensions, win>>
  /\ UNCHANGED readers

handleStageClick ==
  /\ Mounted /\ Idle
  /\ selectedId' = NULL
  /\ lastOp' = [name |-> "handleStageClick", hadSelection |-> selectedId # NULL]
  /\ out' = NULL
  /\ UNCHANGED awaiting
  /\ UNCHANGED <<appVars, isDrawing, tempShape, dimensions, win, now, gesture>>
  /\ UNCHANGED readers

\* variant: selecting a shape also moves its annotation to the end of the
\* list, on top of the others
onSelectToFront(i) ==
  /\ Mounted /\ Idle
  /\ i \in 1..Len(annotations)
  /\ selectedId' = annotations[i].id
  /\ annotations' = [j \in 1..Len(annotations) |->
                       IF j < i THEN annotations[j]
                       ELSE IF j < Len(annotations) THEN annotations[j + 1]
                       ELSE annotations[i]]
  /\ lastOp' = Op("other")
  /\ out' = NULL
  /\ UNCHANGED awaiting
  /\ UNCHANGED <<image, tool, isDrawing, tempShape, dimensions, win, now, gesture>>
  /\ UNCHANGED readers

\* onClick / onTap of the shape drawn for annotations[i]
onSelect(i) ==
  /\ Mounted /\ Idle
  /\ i \in 1..Len(annotations)
  /\ selectedId' = annotations[i].id
  /\ lastOp' = Op("other")
  /\ out' = NULL
  /\ UNCHANGED awaiting
  /\ UNCHANGED <<appVars, isDrawing, tempShape, dimensions, win, now, gesture>>
  /\ UNCHANGED readers

\* onDragEnd of the shape drawn for rendered[i], released at p
onDragEnd(i, p) ==
  /\ Mounted /\ Idle
  /\ i \in 1..Len(rendered)
  /\ annotations' = handleAnnotationChange(rendered, rendered[i].id,
                                           [x |-> p.x, y |-> p.y] @@ rendered[i])
  /\ lastOp' = Op("onDragEnd")
  /\ out' = NULL
  /\ UNCHANGED awaiting
  /\ UNCHANGED <<image, tool, canvasVars, win, now, gesture>>
  /\ UNCHANGED readers

\* ----------------------------------------------------- KonvaCanvas: render
\* const isSelected = annotation.id === selectedId
isSelected(annotation, sel) == annotation.id = sel

\* x and y of KonvaImage: the image is centred on the stage (the sizes
\* explored are even, so the halves are whole numbers)
imagePosition(dims, img) ==
  [x |-> (dims.width - img.width) \div 2, y |-> (dims.height - img.height) \div 2]

Max(a, b) == IF a > b THEN a ELSE b

\* NumberMarker: the pill behind the label, drawn only for a non-empty label
labelPill(annotation) ==
  IF annotation.label = <<>> THEN NULL
  ELSE [width |-> Max(Len(annotation.label) * 8 + 16, 80), height |-> 32]

\* TextAnnotation: the box behind the text
textBox(annotation) ==
  [width |-> Max(Len(annotation.text) * 9 + 16, 100), height |-> 36]

\* the two conditions under which the live preview is drawn
previewDrawn(drawing, ts) ==
  /\ drawing
  /\ ts # NULL
  /\ \/ ts.type = "rect" /\ Has(ts, "width") /\ ts.width > 0
     \/ ts.type = "circle" /\ Has(ts, "radius") /\ SqrtGt(ts.radius, 0)

\* what the Layer of the Stage holds after a render: the annotations in list
\* order, each with its isSelected prop, then the preview
Scene ==
  [shapes  |-> [i \in 1..Len(annotations) |->
                  [annotation |-> annotations[i],
                   isSelected |-> isSelected(annotations[i], selectedId)]],
   preview |-> previewDrawn(isDrawing, tempShape)]

\* stage.toDataURL({ pixelRatio }) rasterises the stage as it is displayed,
\* at stage size times pixelRatio
toDataURL(dims, scene, pixelRatio) ==
  [type |-> "png", width |-> dims.width * pixelRatio,
   height |-> dims.height * pixelRatio,
   shapes |-> scene.shapes, preview |-> scene.preview]

\* variant: no test of stageRef.current, so toDataURL is called on null
exportCanvasToPNGUnguarded(stageReady, dims, scene) ==
  IF ~stageReady THEN [type |-> "TypeError"] ELSE toDataURL(dims, scene, PixelRatio)

\* the value handed to the download link; NULL when the function returns
\* before it makes one
exportCanvasToPNG(stageReady, dims, scene) ==
  IF ~stageReady THEN NULL ELSE toDataURL(dims, scene, PixelRatio)

\* window resize listener; the container fills the window area it is given
updateSize(sz) ==
  /\ Idle
  /\ sz \in ContainerSizes
  /\ sz # win
  /\ win' = sz
  /\ dimensions' = IF Mounted THEN sz ELSE dimensions
  /\ lastOp' = Op("other")
  /\ out' = NULL
  /\ UNCHANGED awaiting
  /\ UNCHANGED <<appVars, selectedId, isDrawing, tempShape, now, gesture>>
  /\ UNCHANGED readers

\* ------------------------------------------------------------ App handlers
\* paste, drop and file input all end in loadImageFromFile(file), which only
\* creates a FileReader and changes no state; paste is available on both
\* screens, so the onload of a reader can fire in any state.
\* variant: the onload replaces the image and leaves the list as it is
readerOnloadKeepsList(file) ==
  /\ Idle
  /\ image' = [type |-> "image", src |-> file]
  /\ IF Mounted THEN UNCHANGED <<canvasVars, gesture>>
     ELSE /\ selectedId' = NULL
          /\ isDrawing' = FALSE
          /\ tempShape' = NULL
          /\ dimensions' = win
          /\ gesture' = NULL
  /\ lastOp' = Op("other")
  /\ out' = NULL
  /\ UNCHANGED <<tool, annotations, win, now, awaiting>>

\* reader.onload; KonvaCanvas is mounted by it when no image was displayed
\* (fresh state, then the mount effect runs updateSize) and keeps its state
\* when it replaces a displayed image
readerOnload(file) ==
  /\ Idle
  /\ image' = [type |-> "image", src |-> file]
  /\ annotations' = <<>>
  /\ IF Mounted THEN UNCHANGED <<canvasVars, gesture>>
     ELSE /\ selectedId' = NULL
          /\ isDrawing' = FALSE
          /\ tempShape' = NULL
          /\ dimensions' = win
          /\ gesture' = NULL
  /\ lastOp' = Op("other")
  /\ out' = NULL
  /\ UNCHANGED awaiting
  /\ UNCHANGED <<tool, win, now>>

\* variant: New Image never asks and always resets
handleNewImageUnconfirmed(confirmed) ==
  /\ Mounted /\ Idle
  /\ image' = NULL
  /\ annotations' = <<>>
  /\ selectedId' = NULL
  /\ isDrawing' = FALSE
  /\ tempShape' = NULL
  /\ dimensions' = DefaultDims
  /\ gesture' = NULL
  /\ lastOp' = Op("other")
  /\ out' = NULL
  /\ UNCHANGED <<tool, win, now, awaiting>>
  /\ UNCHANGED readers

\* variant: switching the tool also drops the selection
setToolDeselects(t) ==
  /\ Mounted /\ Idle
  /\ t \in Tools
  /\ tool' = t
  /\ selectedId' = NULL
  /\ lastOp' = Op("other")
  /\ out' = NULL
  /\ UNCHANGED <<image, annotations, isDrawing, tempShape, dimensions, win,
                 now, gesture, awaiting>>
  /\ UNCHANGED readers

\* variant: switching the tool gives a draw in progress the type of the new
\* tool
setToolRetypes(t) ==
  /\ Mounted /\ Idle
  /\ t \in Tools
  /\ tool' = t
  /\ tempShape' = IF isDrawing /\ tempShape # NULL /\ t \in {"rect", "circle"}
                    THEN [tempShape EXCEPT !.type = t]
                    ELSE tempShape
  /\ lastOp' = Op("other")
  /\ out' = NULL
  /\ UNCHANGED <<image, annotations, selectedId, isDrawing, dimensions, win,
                 now, gesture, awaiting>>
  /\ UNCHANGED readers

\* onClick of a tool button
setTool(t) ==
  /\ Mounted /\ Idle
  /\ t \in Tools
  /\ tool' = t
  /\ lastOp' = Op("other")
  /\ out' = NULL
  /\ UNCHANGED awaiting
  /\ UNCHANGED <<image, annotations, canvasVars, win, now, gesture>>
  /\ UNCHANGED readers

\* the Export button is disabled while the list is empty
handleExport ==
  /\ Mounted /\ Idle
  /\ Len(annotations) > 0
  /\ out' = exportCanvasToPNG(Mounted, dimensions, Scene)
  /\ UNCHANGED awaiting
  /\ lastOp' = Op("other")
  /\ UNCHANGED <<appVars, canvasVars, win, now, gesture>>
  /\ UNCHANGED readers

\* the Clear button is disabled while the list is empty
handleClearAnnotations(confirmed) ==
  /\ Mounted /\ Idle
  /\ Len(annotations) > 0
  /\ annotations' = IF confirmed THEN <<>> ELSE annotations
  /\ lastOp' = Op("other")
  /\ out' = NULL
  /\ UNCHANGED awaiting
  /\ UNCHANGED <<image, tool, canvasVars, win, now, gesture>>
  /\ UNCHANGED readers

\* setImage(null) unmounts KonvaCanvas and its state is dropped
handleNewImage(confirmed) ==
  /\ Mounted /\ Idle
  /\ IF Len(annotations) > 0 /\ ~confirmed
       THEN UNCHANGED <<image, annotations, canvasVars, gesture>>
       ELSE /\ image' = NULL
            /\ annotations' = <<>>
            /\ selectedId' = NULL
            /\ isDrawing' = FALSE
            /\ tempShape' = NULL
            /\ dimensions' = DefaultDims
            /\ gesture' = NULL
  /\ lastOp' = Op("other")
  /\ out' = NULL
  /\ UNCHANGED awaiting
  /\ UNCHANGED <<tool, win, now>>
  /\ UNCHANGED readers

\* ------------------------------------------------------------------- Next
\* window.prompt is only called in marker and text mode
Prompted == IF tool \in {"marker", "text"} THEN Responses ELSE {Cancelled}

\* Date.now() is read only when an annotation is created; it returns the
\* value it returned last or a later one
Clock == now..MaxClock

\* handleStageMouseMove and handleStageMouseUp return at once when no draw
\* is in progress: the pointer position and the clock are not read
Moved   == IF isDrawing THEN MovePositions ELSE DownPositions
UpClock == IF isDrawing THEN Clock ELSE {now}

\* React has rendered App again, with the list the handler left, by the time
\* the next event is delivered
flushed == rendered' = annotations'

\* Spec does not follow the readers: a paste can start one in any state, and
\* its onload is delivered in any state
Next ==
  \/ \E p \in DownPositions, r \in Prompted, t \in Clock :
       Idle /\ ~Prompts /\ handleStageMouseDown(STAGE, p, r, t) /\ flushed
  \/ \E p \in DownPositions : promptOpens(p) /\ flushed
  \/ \E r \in Responses, t \in Clock : promptReturns(r, t) /\ flushed
  \/ \E i \in 1..Len(annotations) :
       /\ Idle
       /\ handleStageMouseDown(i, Pt(annotations[i].x, annotations[i].y), Cancelled, now)
       /\ flushed
  \/ \E p \in Moved : handleStageMouseMove(p) /\ flushed
  \/ \E t \in UpClock : handleStageMouseUp(t) /\ flushed
  \/ handleStageClick /\ flushed
  \/ \E i \in 1..Len(annotations) : onSelect(i) /\ flushed
  \/ \E i \in 1..Len(annotations), p \in DropPositions : onDragEnd(i, p) /\ flushed
  \/ \E sz \in ContainerSizes : updateSize(sz) /\ flushed
  \/ \E file \in 1..NImages : readerOnload(file) /\ UNCHANGED readers /\ flushed
  \/ \E t \in Tools : setTool(t) /\ flushed
  \/ handleExport /\ flushed
  \/ \E c \in BOOLEAN : handleClearAnnotations(c) /\ flushed
  \/ \E c \in BOOLEAN : handleNewImage(c) /\ flushed

Spec == Init /\ [][Next]_vars

TypeOK ==
  /\ tool \in Tools
  /\ Len(annotations) <= MaxAnns
  /\ isDrawing \in BOOLEAN
  /\ now \in 0..MaxClock

\* ------------------------------------------------- export as a function
\* handleExport / exportCanvasToPNG applied in every state App can hand them,
\* the upload screen and a stage that is not committed yet included.
\* stageRef.current is set only while KonvaCanvas is mounted.
SampleAnnotations ==
  {newMarker(<<>>, p, r, 0) : p \in DownPositions, r \in Responses}
    \cup {newText(p, Answer(<<"O", "K">>), 0) : p \in DownPositions}
SampleLists ==
  {<<>>} \cup {<<a>> : a \in SampleAnnotations}
         \cup {<<a, newMarker(<<a>>, p, Cancelled, MaxClock)>> :
                  a \in SampleAnnotations, p \in DownPositions}

ExportInit ==
  /\ image \in {NULL} \cup {[type |-> "image", src |-> f] : f \in 1..NImages}
  /\ tool \in Tools
  /\ annotations \in (IF Mounted THEN SampleLists ELSE {<<>>})
  /\ selectedId \in {NULL} \cup {annotations[i].id : i \in 1..Len(annotations)}
  /\ isDrawing = FALSE
  /\ tempShape = NULL
  /\ win \in ContainerSizes
  /\ dimensions = IF Mounted THEN win ELSE DefaultDims
  /\ now = IF Len(annotations) = 2 THEN MaxClock ELSE 0
  /\ out = NULL
  /\ lastOp = Op("init")
  /\ gesture = NULL
  /\ awaiting = NULL
  /\ rendered = annotations
  /\ readers = {}

exportInvoked(stageReady) ==
  /\ stageReady => Mounted
  /\ out' = exportCanvasToPNG(stageReady, dimensions, Scene)
  /\ lastOp' = [name |-> "handleExport", stageReady |-> stageReady]
  /\ UNCHANGED <<appVars, canvasVars, win, now, gesture, awaiting>>
  /\ UNCHANGED readers

ExportNext == \E stageReady \in BOOLEAN : exportInvoked(stageReady) /\ flushed

ExportSpec == ExportInit /\ [][ExportNext]_vars

\* ----------------------------------------- pointer events as functions
\* what a handler leaves in out when it throws on reading a field of null
TypeError == [type |-> "TypeError"]

\* handleStageMouseDown on the stage when stage.getPointerPosition() returns
\* null.  setSelectedId(null) is called before the position is read.  Marker
\* mode asks for the label and throws when it builds the marker; text mode
\* throws when the text is not falsy; rect and circle mode have called
\* setIsDrawing(true) when the argument of setTempShape throws.  The updates
\* queued before the throw are applied.
handleStageMouseDownNoPosition(r) ==
  /\ Mounted /\ Idle
  /\ selectedId' = NULL
  /\ isDrawing' = IF tool \in {"rect", "circle"} THEN TRUE ELSE isDrawing
  /\ out' = IF tool = "select" THEN NULL
            ELSE IF tool = "text" /\ Falsy(r) THEN NULL
            ELSE TypeError
  /\ lastOp' = Op("handleStageMouseDownNoPosition")
  /\ UNCHANGED <<appVars, tempShape, dimensions, win, now, gesture, awaiting>>
  /\ UNCHANGED readers

\* handleStageMouseMove when stage.getPointerPosition() returns null: with a
\* draw in progress it throws on tempShape.type (tempShape null) or on
\* pointerPosition.x
handleStageMouseMoveNoPosition ==
  /\ Mounted /\ Idle
  /\ out' = IF isDrawing THEN TypeError ELSE NULL
  /\ lastOp' = Op("handleStageMouseMoveNoPosition")
  /\ UNCHANGED <<appVars, canvasVars, win, now, gesture, awaiting>>
  /\ UNCHANGED readers

\* the pointer events applied in every state of ExportInit: a pointer-down
\* or pointer-move without a position, and a pointer-down on a shape
PointerNext ==
  \/ \E r \in Prompted : handleStageMouseDownNoPosition(r) /\ flushed
  \/ handleStageMouseMoveNoPosition /\ flushed
  \/ \E i \in 1..Len(annotations) :
       /\ Idle
       /\ handleStageMouseDown(i, Pt(annotations[i].x, annotations[i].y), Cancelled, now)
       /\ flushed

PointerSpec == ExportInit /\ [][PointerNext]_vars

\* ------------------------------------------ destructive actions as functions
\* the Clear All and New Image buttons pressed in every state of ExportInit,
\* with the confirmation accepted or declined
ConfirmNext ==
  \/ \E c \in BOOLEAN : handleClearAnnotations(c) /\ flushed
  \/ \E c \in BOOLEAN : handleNewImage(c) /\ flushed

ConfirmSpec == ExportInit /\ [][ConfirmNext]_vars

\* ------------------------------------------------ tool buttons as functions
\* each tool button pressed in every state of ExportInit
ToolNext == \E t \in Tools : setTool(t) /\ flushed

ToolSpec == ExportInit /\ [][ToolNext]_vars

\* ------------------------------------------------ box sizes as functions
\* one marker or one text annotation whose string has every length up to
\* MaxStr is rendered, and the sizes of the boxes drawn are collected in out
Str(n) == [i \in 1..n |-> "a"]

WidthInit ==
  /\ image = [type |-> "image", src |-> 1]
  /\ tool \in Tools
  /\ annotations \in
       {<<newMarker(<<>>, p, Answer(Str(n)), 0)>> : p \in DownPositions, n \in 0..MaxStr}
         \cup {<<newText(p, Answer(Str(n)), 0)>> : p \in DownPositions, n \in 1..MaxStr}
  /\ selectedId = NULL
  /\ isDrawing = FALSE
  /\ tempShape = NULL
  /\ win \in ContainerSizes
  /\ dimensions = win
  /\ now = 0
  /\ out = NULL
  /\ lastOp = Op("init")
  /\ gesture = NULL
  /\ awaiting = NULL
  /\ rendered = annotations
  /\ readers = {}

renderBoxes ==
  /\ out' = [type  |-> "boxes",
             boxes |-> [i \in 1..Len(annotations) |->
                          IF annotations[i].type = "marker" THEN labelPill(annotations[i])
                          ELSE IF annotations[i].type = "text" THEN textBox(annotations[i])
                          ELSE NULL]]
  /\ lastOp' = Op("render")
  /\ UNCHANGED <<appVars, canvasVars, win, now, gesture, awaiting>>
  /\ UNCHANGED readers

WidthNext == renderBoxes /\ flushed

WidthSpec == WidthInit /\ [][WidthNext]_vars

\* ------------------------------------------ handlers between two renders
\* React 18 batches the state updates of a handler and renders App later:
\* after a microtask for a pointer event, in a later task for the onload of
\* a reader.  Until then the handlers in place are those of the last render,
\* which read its `annotations`.
render ==
  /\ Idle
  /\ rendered # annotations
  /\ rendered' = annotations
  /\ UNCHANGED <<image, tool, annotations, selectedId, isDrawing, tempShape,
                 dimensions, win, now, out, lastOp, gesture, awaiting, readers>>

\* the list-mutating handlers and the onload of a reader, applied to the
\* states of ExportInit, with the render as a step of its own
SnapshotNext ==
  \/ \E p \in DownPositions, r \in Prompted, t \in Clock :
       Idle /\ ~Prompts /\ handleStageMouseDown(STAGE, p, r, t) /\ UNCHANGED rendered
  \/ \E p \in DownPositions : promptOpens(p) /\ UNCHANGED rendered
  \/ \E r \in Responses, t \in Clock : promptReturns(r, t) /\ UNCHANGED rendered
  \/ \E p \in Moved : handleStageMouseMove(p) /\ UNCHANGED rendered
  \/ \E t \in UpClock : handleStageMouseUp(t) /\ UNCHANGED rendered
  \/ \E i \in 1..Len(rendered), p \in DropPositions :
       onDragEnd(i, p) /\ UNCHANGED rendered
  \/ \E file \in 1..NImages : readerOnload(file) /\ UNCHANGED <<readers, rendered>>
  \/ render

SnapshotSpec == ExportInit /\ [][SnapshotNext]_vars

\* ---------------------------------------------------- loads in flight
\* the image files pasted, dropped or picked while loads overlap
LoadFiles == {1, 2}

\* loadImageFromFile: a FileReader is created and started, no state of App
\* changes before its onload (one reader per file is followed)
loadImageFromFile(file) ==
  /\ Idle
  /\ file \notin readers
  /\ readers' = readers \cup {file}
  /\ lastOp' = Op("other")
  /\ out' = NULL
  /\ UNCHANGED <<appVars, canvasVars, win, now, gesture, awaiting>>

\* loads are started in the states of ExportInit and their readers complete
\* in any order, while annotations are created and selected
LoadNext ==
  \/ \E file \in LoadFiles : loadImageFromFile(file) /\ flushed
  \/ \E file \in readers :
       readerOnload(file) /\ readers' = readers \ {file} /\ flushed
  \/ \E p \in DownPositions : promptOpens(p) /\ flushed
  \/ \E r \in Responses, t \in Clock : promptReturns(r, t) /\ flushed
  \/ \E i \in 1..Len(annotations) : onSelect(i) /\ flushed

LoadSpec == ExportInit /\ [][LoadNext]_vars

\* ------------------------------------------------------------- properties
\* the extent of a draw, from the pointer positions Konva delivered
DX(g) == Abs(g.last.x - g.start.x)
DY(g) == Abs(g.last.y - g.start.y)
Dist2(g) == DX(g) * DX(g) + DY(g) * DY(g)

UpEndedDraw == lastOp.name = "handleStageMouseUp"
Last(seq)   == seq[Len(seq)]
AppendedOne == /\ Len(annotations) = Len(lastOp.before) + 1
               /\ SubSeq(annotations, 1, Len(lastOp.before)) = lastOp.before

MarkersUpTo(i) == Len(SelectSeq(SubSeq(annotations, 1, i), IsMarker))

\* C1: the k-th marker-type annotation of the list, in creation order, has
\* number k, however many annotations of other types stand before it.
C1_MarkerNumbering ==
  \A i \in 1..Len(annotations) :
    IsMarker(annotations[i]) => annotations[i].number = MarkersUpTo(i)

\* C2: an exported raster has the intrinsic width and height of the loaded
\* image, whatever the size of the container.
C2_ExportAtImageSize ==
  out # NULL =>
    /\ out.width = ImgSize(image.src).width
    /\ out.height = ImgSize(image.src).height

\* C3: an exported raster holds every annotation of the list, in list
\* order, drawn as not selected, and no preview shape.
C3_ExportContent ==
  out # NULL =>
    /\ Len(out.shapes) = Len(annotations)
    /\ \A i \in 1..Len(annotations) :
         /\ out.shapes[i].annotation = annotations[i]
         /\ out.shapes[i].isSelected = FALSE
    /\ out.preview = FALSE

\* a draw whose final extent is below the minimum-size threshold, or that
\* saw no pointer-move at all
BelowThreshold(g) ==
  \/ ~g.moved
  \/ g.tool = "rect" /\ (DX(g) <= 10 \/ DY(g) <= 10)
  \/ g.tool = "circle" /\ Dist2(g) <= 100

\* C4: in a rect/circle drag sequence whose final extent is below the
\* threshold, neither the pointer-down that starts the draw, nor a
\* pointer-move, nor the pointer-up changes the Annotation List.
C4_DiscardBelowThreshold ==
  [][(\/ /\ lastOp'.name = "handleStageMouseDown"
         /\ tool \in {"rect", "circle"}
         /\ \E p \in DownPositions : handleStageMouseDown(STAGE, p, Cancelled, now)
      \/ /\ isDrawing /\ gesture' # NULL /\ gesture'.moved
         /\ handleStageMouseMove(gesture'.last)
      \/ /\ lastOp'.name = "handleStageMouseUp"
         /\ BelowThreshold(gesture)
         /\ \E t \in Clock : handleStageMouseUp(t))
     => annotations' = annotations]_vars

C4_Witness ==
  /\ UpEndedDraw
  /\ lastOp.draw.moved
  /\ BelowThreshold(lastOp.draw)
  /\ Len(annotations) > 0
  /\ annotations = lastOp.before

C7_DragIsolation ==
  [][\A i \in 1..Len(annotations), p \in DropPositions :
       onDragEnd(i, p) =>
         /\ Len(annotations') = Len(annotations)
         /\ \A j \in 1..Len(annotations) :
              annotations'[j] = IF j = i
                                  THEN [annotations[j] EXCEPT !.x = p.x, !.y = p.y]
                                  ELSE annotations[j]]_vars

\* C8: no two annotations of the list have the same id.
C8_UniqueIds ==
  \A i, j \in 1..Len(annotations) :
    i # j => annotations[i].id # annotations[j].id

\* C9: at most one annotation of the list is rendered as selected.
C9_AtMostOneSelected ==
  Cardinality({i \in 1..Len(annotations) :
                 isSelected(annotations[i], selectedId)}) <= 1

C11_LoadClearsSelection ==
  [][(\/ \E file \in 1..NImages : readerOnload(file)
      \/ \E c \in BOOLEAN : handleNewImage(c) /\ image' = NULL)
     => (annotations' = <<>> /\ selectedId' = NULL)]_vars

\* the response of a text-entry request that creates nothing in text mode,
\* and the label a response gives a marker
NoContent(r) == IF r.ok THEN r.value = <<>> ELSE TRUE
LabelOf(r)   == IF r.ok THEN r.value ELSE <<>>

C14_ToolSwitch ==
  [][\A t \in Tools :
       setTool(t)
       => /\ tool' = t
          /\ UNCHANGED <<image, annotations, selectedId, isDrawing, tempShape,
                         dimensions, now>>
          /\ tool = t => tool' = tool]_vars

\* a tool button was pressed while an annotation is selected
C14_Witness ==
  /\ lastOp.name = "other"
  /\ tool = "rect"
  /\ selectedId # NULL
  /\ Len(annotations) > 0

\* where annotation a is drawn in the live view, measured from the top-left
\* corner of the base image
OffsetFromImage(a, dims, img) ==
  [x |-> a.x - imagePosition(dims, img).x, y |-> a.y - imagePosition(dims, img).y]

\* C15: stored coordinates are anchored to the image content: a step that
\* changes neither the image nor the list (a container resize in particular)
\* leaves every annotation at the same offset from the image's top-left
\* corner in the live view.
C15_AnchoredToImage ==
  [][(Mounted /\ image' = image /\ annotations' = annotations)
     => \A i \in 1..Len(annotations) :
          OffsetFromImage(annotations[i], dimensions', ImgSize(image.src))
            = OffsetFromImage(annotations[i], dimensions, ImgSize(image.src))]_vars

\* the stored position of an annotation
XY(a) == <<a.x, a.y>>

\* C16: a pointer-move never changes the list; the drag-end of annotation i
\* at p stores p as its x, y; and no other step changes the stored x or y of
\* an annotation that stays in the list.
C16_DragCommit ==
  [][/\ annotations' # annotations
          => ~ \E p \in MovePositions : handleStageMouseMove(p)
     /\ \A i \in 1..Len(annotations), p \in DropPositions :
          (lastOp'.name = "onDragEnd" /\ onDragEnd(i, p))
          => XY(annotations'[i]) = <<p.x, p.y>>
     /\ (/\ annotations' # annotations
         /\ Len(annotations') >= Len(annotations)
         /\ \E i \in 1..Len(annotations) : XY(annotations'[i]) # XY(annotations[i]))
          => lastOp'.name = "onDragEnd"]_vars

\* a rect that was drawn and then dragged to the drop position
C16_Witness ==
  /\ Len(annotations) >= 1
  /\ annotations[1].type = "rect"
  /\ annotations[1].width = 11
  /\ XY(annotations[1]) = <<5, 3>>

\* C17: a creation appends the new annotation at the end of the list, and a
\* step that keeps annotations in the list keeps them at their positions:
\* apart from the removal of the whole list, a step that changes the list
\* leaves the same annotation (id and type) at every position the list had.
C17_OrderStable ==
  [][annotations' # annotations =>
       \/ lastOp'.name = "other" /\ annotations' = <<>>
       \/ /\ Len(annotations') \in {Len(annotations), Len(annotations) + 1}
          /\ \A i \in 1..Len(annotations) :
               /\ annotations'[i].id = annotations[i].id
               /\ annotations'[i].type = annotations[i].type
          /\ Len(annotations') = Len(annotations) + 1
               => SubSeq(annotations', 1, Len(annotations)) = annotations]_vars

\* the first of two annotations with different ids has been dragged and is
\* still the first
C17_Witness ==
  /\ lastOp.name = "onDragEnd"
  /\ Len(annotations) = 2
  /\ annotations[1].id # annotations[2].id
  /\ XY(annotations[1]) = <<5, 3>>
  /\ XY(annotations[2]) # <<5, 3>>

\* C18: export invoked while no image is loaded, or while the stage is not
\* ready, produces no artifact and raises no error (it returns nothing), and
\* changes neither image, list, selection nor tool.
C18_ExportNoOp ==
  [][\A stageReady \in BOOLEAN :
       (exportInvoked(stageReady) /\ (~Mounted \/ ~stageReady))
       => /\ out' = NULL
          /\ UNCHANGED <<image, annotations, selectedId, tool>>]_vars

\* export was invoked on the upload screen and returned nothing
C18_Witness ==
  /\ lastOp.name = "handleExport"
  /\ ~lastOp.stageReady
  /\ ~Mounted
  /\ out = NULL

\* C19: the number of a marker is the same in every state from its creation
\* to its removal: a step that keeps the list or extends it leaves the number
\* of every marker in it unchanged.
C19_NumbersStable ==
  [][(annotations' # annotations /\ Len(annotations') >= Len(annotations))
     => \A i \in 1..Len(annotations) :
          IsMarker(annotations[i]) =>
            /\ IsMarker(annotations'[i])
            /\ annotations'[i].number = annotations[i].number]_vars

\* C20: while a marker-label or text request awaits its response, pointer
\* events are still processed: a pointer-move, a pointer-up, a pointer-down or
\* a click can be handled before the response arrives.
C20_EventsWhileAwaiting ==
  awaiting # NULL =>
    /\ ENABLED (\E p \in MovePositions : handleStageMouseMove(p))
    /\ ENABLED (\E t \in Clock : handleStageMouseUp(t))
    /\ ENABLED handleStageClick

\* C21: a draw whose pointer-up never reached the canvas adds nothing later:
\* once the tool is no longer the one the draw was started with (the tool
\* buttons cannot be reached while the pointer is still down on the canvas),
\* a pointer-up leaves the Annotation List unchanged.
C21_AbandonedDrawDiscarded ==
  [][(/\ isDrawing
      /\ gesture.tool # tool
      /\ lastOp'.name = "handleStageMouseUp")
     => annotations' = annotations]_vars

\* C22: a pointer-down or pointer-move whose pointer position is missing is
\* a no-op: the handler raises no exception and leaves the Annotation List,
\* the selection and the draw in progress unchanged.
C22_MissingPositionNoOp ==
  [][lastOp'.name \in {"handleStageMouseDownNoPosition",
                       "handleStageMouseMoveNoPosition"}
     => /\ out' # TypeError
        /\ UNCHANGED <<annotations, selectedId, isDrawing, tempShape>>]_vars

\* C23: in every tool mode a pointer-down on a rendered annotation creates
\* no annotation, starts no draw and requests no text.
C23_DownOnShape ==
  [][\A i \in 1..Len(annotations) :
       (/\ Idle
        /\ handleStageMouseDown(i, Pt(annotations[i].x, annotations[i].y),
                                Cancelled, now))
       => /\ annotations' = annotations
          /\ isDrawing' = isDrawing
          /\ tempShape' = tempShape
          /\ awaiting' = NULL]_vars

\* a pointer-down on a shape was handled in rect mode: no draw was started
C23_Witness ==
  /\ lastOp.name = "other"
  /\ tool = "rect"
  /\ Len(annotations) > 0
  /\ ~isDrawing
  /\ tempShape = NULL

\* C29: Clear All empties the list when the confirmation is accepted and
\* leaves it unchanged when declined; New Image leaves image and list
\* unchanged when the list is non-empty and the confirmation is declined, and
\* otherwise sets the image to none and the list to empty.
C29_ConfirmedActions ==
  [][\A c \in BOOLEAN :
       /\ handleClearAnnotations(c)
            => /\ annotations' = IF c THEN <<>> ELSE annotations
               /\ image' = image
       /\ handleNewImage(c)
            => IF Len(annotations) > 0 /\ ~c
                 THEN image' = image /\ annotations' = annotations
                 ELSE image' = NULL /\ annotations' = <<>>]_vars

\* New Image went through: the upload screen is shown again
C29_Witness ==
  /\ lastOp.name = "other"
  /\ image = NULL
  /\ annotations = <<>>

\* C30: the selected id is none or the id of an annotation of the list.
C30_SelectionValid ==
  \/ selectedId = NULL
  \/ \E i \in 1..Len(annotations) : annotations[i].id = selectedId

\* C25: for every string length, the label pill of a marker is
\* max(length * 8 + 16, 80) wide and 32 high, and the box of a text
\* annotation is max(length * 8 + 16, 100) wide and 36 high.
C25_BoxWidths ==
  out.type = "boxes" =>
    \A i \in 1..Len(annotations) :
      /\ (annotations[i].type = "marker" /\ annotations[i].label # <<>>) =>
           /\ out.boxes[i].width =
                (IF Len(annotations[i].label) * 8 + 16 > 80
                   THEN Len(annotations[i].label) * 8 + 16 ELSE 80)
           /\ out.boxes[i].height = 32
      /\ annotations[i].type = "text" =>
           /\ out.boxes[i].width =
                (IF Len(annotations[i].text) * 8 + 16 > 100
                   THEN Len(annotations[i].text) * 8 + 16 ELSE 100)
           /\ out.boxes[i].height = 36

\* C24: selecting and deselecting, switching tools, a container resize,
\* export, a pointer-move (with or without a draw in progress) and a
\* pointer-up with no draw in progress never change the Annotation List.
C24_ListFrame ==
  [][annotations' # annotations =>
       ~ \/ \E i \in 1..Len(annotations) : onSelect(i)
         \/ handleStageClick
         \/ \E t \in Tools : setTool(t)
         \/ \E sz \in ContainerSizes : updateSize(sz)
         \/ handleExport
         \/ \E p \in MovePositions : handleStageMouseMove(p)
         \/ ~isDrawing /\ \E t \in Clock : handleStageMouseUp(t)]_vars

\* the first of two annotations is selected while a draw is in progress, and
\* both are in the list as they were created
C24_Witness ==
  /\ Len(annotations) = 2
  /\ annotations[1].id # annotations[2].id
  /\ selectedId = annotations[1].id
  /\ isDrawing
  /\ tempShape # NULL
  /\ XY(annotations[1]) = <<11, 12>>

C27_DataModel ==
  \A i \in 1..Len(annotations) :
    LET a == annotations[i] IN
      /\ a.type = "rect" => (a.width > 0 /\ a.height > 0)
      /\ a.type = "circle" => a.radius.sqrt > 0
      /\ a.type = "text" => a.text # <<>>
      /\ a.type = "marker" => (a.number \in Int /\ a.number >= 1)

\* a text annotation and a rect are in the list
C27_Witness ==
  /\ Len(annotations) = 2
  /\ annotations[1].type = "text"
  /\ annotations[2].type = "rect"

\* C28: every marker of the list has style tag primary and every rect and
\* circle has style tag warning, from creation on and after every operation;
\* every style tag in the list is one of primary, warning, info.
C28_StyleTags ==
  \A i \in 1..Len(annotations) :
    LET a == annotations[i] IN
      /\ a.type = "marker" => a.style = "primary"
      /\ a.type \in {"rect", "circle"} => a.style = "warning"
      /\ "style" \in DOMAIN a => a.style \in StyleTags

\* a marker and a circle are in the list after the marker was dragged
C28_Witness ==
  /\ lastOp.name = "onDragEnd"
  /\ Len(annotations) = 2
  /\ annotations[1].type = "marker"
  /\ annotations[2].type = "circle"
  /\ XY(annotations[1]) = <<5, 3>>

\* C31: no update is lost: a creation or a drag-commit, also one that runs
\* before the render that follows an earlier one, leaves every annotation the
\* list held in the list, at its position; a creation leaves them as they
\* were, and a drag-commit changes only the annotations with one id.
C31_NoLostUpdate ==
  [][(/\ annotations' # annotations
      /\ lastOp'.name \in {"handleStageMouseDown", "handleStageMouseUp", "onDragEnd"})
     => /\ Len(annotations') >= Len(annotations)
        /\ \A j \in 1..Len(annotations) :
             /\ annotations'[j].id = annotations[j].id
             /\ lastOp'.name # "onDragEnd" => annotations'[j] = annotations[j]
        /\ \A j, k \in 1..Len(annotations) :
             (annotations'[j] # annotations[j] /\ annotations'[k] # annotations[k])
               => annotations[j].id = annotations[k].id]_vars

\* C32: the step in which the reader of a started load completes replaces
\* the image by the one that reader read and empties the Annotation List,
\* whatever was committed since the load was started and whether or not
\* another load is in flight; so after the last of the callbacks the list is
\* empty and the image is that of the callback that ran last.
C32_LoadCompletes ==
  [][\A file \in LoadFiles :
       (file \in readers /\ file \notin readers')
       => /\ image' = [type |-> "image", src |-> file]
          /\ annotations' = <<>>]_vars

\* the callback of file 2 has run while the load of file 1 is in flight: it
\* emptied a list of which an annotation had been selected
C32_Witness ==
  /\ readers = {1}
  /\ image = [type |-> "image", src |-> 2]
  /\ annotations = <<>>
  /\ selectedId # NULL

\* C33: the type of a shape being drawn is the tool of the pointer-down that
\* started the draw, whatever the active tool has become since: the preview
\* descriptor has that type while the draw is in progress, and a shape the
\* pointer-up commits has it too.
C33_TypeFixedAtDown ==
  /\ (isDrawing /\ tempShape # NULL /\ gesture # NULL)
       => tempShape.type = gesture.tool
  /\ (UpEndedDraw /\ annotations # lastOp.before)
       => Last(annotations).type = lastOp.draw.tool

\* a draw started in circle mode was committed as a circle by a pointer-up
\* delivered in rect mode
C33_Witness ==
  /\ UpEndedDraw
  /\ lastOp.draw.tool = "circle"
  /\ tool = "rect"
  /\ AppendedOne
  /\ Last(annotations).type = "circle"

C35_NumberingRestarts ==
  (lastOp.name = "handleStageMouseDown" /\ tool = "marker") =>
    /\ IsMarker(Last(annotations))
    /\ Last(annotations).number = Len(SelectSeq(annotations, IsMarker))
    /\ (\A i \in 1..(Len(annotations) - 1) : ~IsMarker(annotations[i]))
         => Last(annotations).number = 1

\* marker 1 was created on an empty list while an annotation was still
\* selected: the list had been emptied by Clear All or by a load
C35_Witness ==
  /\ lastOp.name = "handleStageMouseDown"
  /\ lastOp.hadSelection
  /\ tool = "marker"
  /\ Len(annotations) = 1
  /\ annotations[1].number = 1

\* C36: a draw is in progress exactly when there is a preview descriptor;
\* the descriptor has type rect or circle and starts at the position of the
\* pointer-down that started the draw.
C36_DrawStateConsistent ==
  /\ isDrawing <=> tempShape # NULL
  /\ tempShape # NULL =>
       /\ tempShape.type \in {"rect", "circle"}
       /\ gesture # NULL
       /\ tempShape.startX = gesture.start.x
       /\ tempShape.startY = gesture.start.y

====
